---- MODULE Spec2Model ----
(***************************************************************************)
(* The users REST API of kelvins/GoApiTutorial: the five handlers of       *)
(* app.go (given in README.md), the data-access functions of model.go in   *)
(* its three versions (fmt.Sprintf, "Not implemented" stubs, placeholders) *)
(* and the users table the statements run against.                         *)
(*                                                                         *)
(* A string is a sequence of one-character strings, a SQL statement is a   *)
(* sequence of tokens: the pieces of the format string as written in the   *)
(* source, and whatever the formatting verbs put between them.             *)
(***************************************************************************)
EXTENDS Integers, Sequences, FiniteSets, TLC

VARIABLES
    variant,        \* which version of model.go the binary was built from
    users,          \* the rows of the users table, in the order a scan returns them
    autoInc,        \* the table's AUTO_INCREMENT counter
    lastInsertId,   \* LAST_INSERT_ID() of the connection the handle holds
    req,            \* the request served last
    resp,           \* the response written for it
    calls,          \* the data-access calls its handler made
    sent,           \* the statements those calls handed to the driver
    pool,           \* LAST_INSERT_ID() of each connection of the handle's pool
    flight          \* the create request each goroutine is serving, and how far it is

vars == <<variant, users, autoInc, lastInsertId, req, resp, calls, sent, pool, flight>>

----------------------------------------------------------------------------
(* Bounds and input sets *)

MaxId == 2

MaxInt == 2147483647

\* Goroutines serving create requests at the same time, and connections the
\* handle's pool holds
MaxProcs == 2
MaxConns == 2

Quote == "'"
Hash == "#"

\* A run of characters a name can hold: the text of an assignment to id
KwSetId == ", id="

\* The (name, age) pairs the requests carry.  A name is the sequence of its
\* characters (or runs of characters): a, b, '', '# and ', id=1#
Payloads == { <<(<<"a">>), 30>>, <<(<<"b">>), 21>>,
              <<(<<Quote, Quote>>), 21>>, <<(<<Quote, Hash>>), 30>>,
              <<(<<Quote, KwSetId, "1", Hash>>), 30>> }

PathIds == 1 .. (MaxId + 1)

Variants == {"sprintf", "placeholder"}
AllVariants == Variants \cup {"stub"}

----------------------------------------------------------------------------
(* type user struct *)

user(id, name, age) == [ID |-> id, Name |-> name, Age |-> age]

ZeroUser == user(0, <<>>, 0)

----------------------------------------------------------------------------
(* Errors *)

NoErr == ""
ErrNoRows == "sql: no rows in result set"
ErrSyntax == "Error 1064: You have an error in your SQL syntax"
ErrNotImplemented == "Not implemented"
ErrBadConn == "driver: bad connection"
ErrDuplicate == "Error 1062: Duplicate entry for key 'PRIMARY'"

----------------------------------------------------------------------------
(* The text of the statements: the pieces of the format strings of model.go *)

KwSelectOne == "SELECT name, age FROM users WHERE id="
KwUpdate == "UPDATE users SET name="
KwAge == ", age="
KwWhereId == " WHERE id="
KwDelete == "DELETE FROM users WHERE id="
KwInsert == "INSERT INTO users(name, age) VALUES("
KwComma == ", "
KwClose == ")"
KwReturning == " RETURNING id"
KwLastId == "SELECT LAST_INSERT_ID()"
KwList == "SELECT id, name, age FROM users LIMIT "
KwOffset == " OFFSET "

Placeholders == <<"$1", "$2", "$3">>

\* The numbers a statement can hold, and the text %d gives each.
Numbers == (-1 .. 31) \cup {MaxInt}

\* fmt's %d verb
Fmt(n) == ToString(n)

NumOf == [t \in {Fmt(n) : n \in Numbers} |-> CHOOSE n \in Numbers : Fmt(n) = t]

\* A value handed to the driver next to the statement text
StrArg(s) == [isStr |-> TRUE, val |-> s]
IntArg(n) == [isStr |-> FALSE, val |-> n]

Statement(text, args) == [text |-> text, args |-> args]

----------------------------------------------------------------------------
(* The database server: how it reads a statement and what the statement    *)
(* does to the users table                                                 *)

Database(rows, counter, lastId) ==
    [users |-> rows, autoInc |-> counter, lastInsertId |-> lastId]

\* What the server makes of a statement's text: keywords and values.
KwItem(tok) == [kind |-> "kw", kw |-> tok, str |-> <<>>, num |-> 0]
StrItem(s) == [kind |-> "str", kw |-> "", str |-> s, num |-> 0]
NumItem(n) == [kind |-> "num", kw |-> "", str |-> <<>>, num |-> n]
BadItem == [kind |-> "bad", kw |-> "", str |-> <<>>, num |-> 0]

ArgItem(arg) == IF arg.isStr THEN StrItem(arg.val) ELSE NumItem(arg.val)

PlaceholderIndex(tok) == CHOOSE i \in DOMAIN Placeholders : Placeholders[i] = tok

\* The server's lexer.  Outside a string literal: a quote opens a literal, a #
\* starts a comment that runs to the end of the statement, a placeholder stands
\* for the parameter bound to it, digits are a number, anything else is a word
\* of the statement.  Inside a literal (inStr, lit holds what was read of it):
\* a doubled quote stands for one quote, a single quote ends the literal, and
\* a literal the text ends in the middle of is an error.
RECURSIVE Lex(_, _, _, _, _)
Lex(text, args, items, inStr, lit) ==
    IF text = <<>>
    THEN IF inStr THEN Append(items, BadItem) ELSE items
    ELSE IF inStr
    THEN IF Head(text) = Quote
         THEN IF Len(text) >= 2 /\ text[2] = Quote
              THEN Lex(SubSeq(text, 3, Len(text)), args, items, TRUE, Append(lit, Quote))
              ELSE Lex(Tail(text), args, Append(items, StrItem(lit)), FALSE, <<>>)
         ELSE Lex(Tail(text), args, items, TRUE, Append(lit, Head(text)))
    ELSE IF Head(text) = Quote
    THEN Lex(Tail(text), args, items, TRUE, <<>>)
    ELSE IF Head(text) = Hash
    THEN items
    ELSE IF \E i \in DOMAIN Placeholders : Placeholders[i] = Head(text)
    THEN Lex(Tail(text), args,
             Append(items, IF PlaceholderIndex(Head(text)) \in DOMAIN args
                           THEN ArgItem(args[PlaceholderIndex(Head(text))])
                           ELSE BadItem),
             FALSE, <<>>)
    ELSE IF Head(text) \in DOMAIN NumOf
    THEN Lex(Tail(text), args, Append(items, NumItem(NumOf[Head(text)])), FALSE, <<>>)
    ELSE Lex(Tail(text), args, Append(items, KwItem(Head(text))), FALSE, <<>>)

\* The statement's form: its words, with "str" or "num" where a value stands.
RECURSIVE Shape(_)
Shape(items) ==
    IF items = <<>>
    THEN <<>>
    ELSE << IF Head(items).kind = "kw" THEN Head(items).kw ELSE Head(items).kind >>
         \o Shape(Tail(items))

Failed(db, err) == [err |-> err, rows |-> <<>>, db |-> db]
Done(db, rows) == [err |-> NoErr, rows |-> rows, db |-> db]

\* The columns name, age of each row
RECURSIVE NameAge(_)
NameAge(rows) ==
    IF rows = <<>>
    THEN <<>>
    ELSE << <<Head(rows).Name, Head(rows).Age>> >> \o NameAge(Tail(rows))

\* The columns id, name, age of each row
RECURSIVE IdNameAge(_)
IdNameAge(rows) ==
    IF rows = <<>>
    THEN <<>>
    ELSE << <<Head(rows).ID, Head(rows).Name, Head(rows).Age>> >> \o IdNameAge(Tail(rows))

\* SELECT name, age FROM users WHERE id=<id>
ExecSelectOne(id, db) ==
    Done(db, NameAge(SelectSeq(db.users, LAMBDA r : r.ID = id)))

\* UPDATE users SET name=<name>[, age=<age>][ WHERE id=<id>]: without the WHERE
\* clause every row is set, without the age only the name is.
RECURSIVE SetRows(_, _, _, _, _, _)
SetRows(rows, all, id, name, setAge, age) ==
    IF rows = <<>>
    THEN <<>>
    ELSE << IF all \/ Head(rows).ID = id
            THEN [Head(rows) EXCEPT !.Name = name, !.Age = IF setAge THEN age ELSE @]
            ELSE Head(rows) >>
         \o SetRows(Tail(rows), all, id, name, setAge, age)

ExecUpdate(all, id, name, setAge, age, db) ==
    Done([db EXCEPT !.users = SetRows(@, all, id, name, setAge, age)], <<>>)

\* UPDATE users SET name=<name>, id=<id>: every row is given the name and the
\* id.  id is the PRIMARY KEY: with two rows or more the statement fails on the
\* duplicate and changes nothing.
RECURSIVE SetIds(_, _, _)
SetIds(rows, name, id) ==
    IF rows = <<>>
    THEN <<>>
    ELSE << [Head(rows) EXCEPT !.Name = name, !.ID = id] >> \o SetIds(Tail(rows), name, id)

ExecUpdateId(name, id, db) ==
    IF Len(db.users) >= 2
    THEN Failed(db, ErrDuplicate)
    ELSE Done([db EXCEPT !.users = SetIds(@, name, id)], <<>>)

\* DELETE FROM users WHERE id=<id>
ExecDelete(id, db) ==
    Done([db EXCEPT !.users = SelectSeq(@, LAMBDA r : r.ID # id)], <<>>)

\* INSERT INTO users(name, age) VALUES(<name>, <age>)[ RETURNING id]
\* id INT AUTO_INCREMENT PRIMARY KEY: the new row takes the counter's value.
ExecInsert(name, age, returning, db) ==
    Done(Database(Append(db.users, user(db.autoInc, name, age)),
                  db.autoInc + 1, db.autoInc),
         IF returning THEN << <<db.autoInc>> >> ELSE <<>>)

\* SELECT LAST_INSERT_ID()
ExecLastId(db) == Done(db, << <<db.lastInsertId>> >>)

\* SELECT id, name, age FROM users LIMIT <count> OFFSET <start>
ExecList(count, start, db) ==
    IF count < 0 \/ start < 0
    THEN Failed(db, ErrSyntax)
    ELSE IF Len(db.users) - start <= 0 \/ count = 0
    THEN Done(db, <<>>)
    ELSE IF Len(db.users) - start < count
    THEN Done(db, IdNameAge(SubSeq(db.users, start + 1, Len(db.users))))
    ELSE Done(db, IdNameAge(SubSeq(db.users, start + 1, start + count)))

\* The statement of this form, run with the values it holds.
Run(shape, items, db) ==
    CASE shape = <<KwSelectOne, "num">> -> ExecSelectOne(items[2].num, db)
      [] shape = <<KwUpdate, "str">> ->
            ExecUpdate(TRUE, 0, items[2].str, FALSE, 0, db)
      [] shape = <<KwUpdate, "str", KwAge, "num">> ->
            ExecUpdate(TRUE, 0, items[2].str, TRUE, items[4].num, db)
      [] shape = <<KwUpdate, "str", KwAge, "num", KwWhereId, "num">> ->
            ExecUpdate(FALSE, items[6].num, items[2].str, TRUE, items[4].num, db)
      [] shape = <<KwUpdate, "str", KwSetId, "num">> ->
            ExecUpdateId(items[2].str, items[4].num, db)
      [] shape = <<KwDelete, "num">> -> ExecDelete(items[2].num, db)
      [] shape = <<KwInsert, "str", KwComma, "num", KwClose>> ->
            ExecInsert(items[2].str, items[4].num, FALSE, db)
      [] shape = <<KwInsert, "str", KwComma, "num", KwClose, KwReturning>> ->
            ExecInsert(items[2].str, items[4].num, TRUE, db)
      [] shape = <<KwLastId>> -> ExecLastId(db)
      [] shape = <<KwList, "num", KwOffset, "num">> ->
            ExecList(items[2].num, items[4].num, db)
      [] OTHER -> Failed(db, ErrSyntax)

Parsed(items, db) == Run(Shape(items), items, db)

\* What the server does with one statement: [err, rows, db].
Execute(stmt, db) == Parsed(Lex(stmt.text, stmt.args, <<>>, FALSE, <<>>), db)

----------------------------------------------------------------------------
(* database/sql: the handle's calls.  broken: the driver fails this call   *)
(* before the statement reaches the server.                                *)

DB == Database(users, autoInc, lastInsertId)

\* db.Exec(statement, args...)
Exec(db, stmt, broken) ==
    IF broken THEN Failed(db, ErrBadConn) ELSE Execute(stmt, db)

\* db.Query(statement, args...)
Query(db, stmt, broken) ==
    IF broken THEN Failed(db, ErrBadConn) ELSE Execute(stmt, db)

\* db.QueryRow(statement, args...).Scan(dest...): the first row, or ErrNoRows
Scan(r) ==
    IF r.err = NoErr /\ r.rows = <<>> THEN Failed(r.db, ErrNoRows) ELSE r

QueryRowScan(db, stmt, broken) == Scan(Query(db, stmt, broken))

----------------------------------------------------------------------------
(* model.go, built with fmt.Sprintf                                        *)
(* Each function gives [err, u, db, sent]: the error it returns, the       *)
(* receiver as it leaves it, the database afterwards, the statements sent. *)

Returned(err, u, db, stmts) == [err |-> err, u |-> u, db |-> db, sent |-> stmts]

getUserSprintf(u, db, fault) ==
    LET statement == Statement(<<KwSelectOne, Fmt(u.ID)>>, <<>>)
        r == QueryRowScan(db, statement, fault = 1)
    IN  Returned(r.err,
                 IF r.err = NoErr
                 THEN [u EXCEPT !.Name = r.rows[1][1], !.Age = r.rows[1][2]] ELSE u,
                 r.db, <<statement>>)

updateUserSprintf(u, db, fault) ==
    LET statement == Statement(<<KwUpdate, Quote>> \o u.Name
                               \o <<Quote, KwAge, Fmt(u.Age), KwWhereId, Fmt(u.ID)>>, <<>>)
        r == Exec(db, statement, fault = 1)
    IN  Returned(r.err, u, r.db, <<statement>>)

deleteUserSprintf(u, db, fault) ==
    LET statement == Statement(<<KwDelete, Fmt(u.ID)>>, <<>>)
        r == Exec(db, statement, fault = 1)
    IN  Returned(r.err, u, r.db, <<statement>>)

\* The two statements of createUser
InsertStatement(u) ==
    Statement(<<KwInsert, Quote>> \o u.Name \o <<Quote, KwComma, Fmt(u.Age), KwClose>>, <<>>)

LastIdStatement == Statement(<<KwLastId>>, <<>>)

createUserSprintf(u, db, fault) ==
    LET statement == InsertStatement(u)
        r == Exec(db, statement, fault = 1)
        lastId == LastIdStatement
        q == QueryRowScan(r.db, lastId, fault = 2)
    IN  IF r.err # NoErr
        THEN Returned(r.err, u, r.db, <<statement>>)
        ELSE IF q.err # NoErr
        THEN Returned(q.err, u, q.db, <<statement, lastId>>)
        ELSE Returned(NoErr, [u EXCEPT !.ID = q.rows[1][1]], q.db, <<statement, lastId>>)

\* The scan loop with one user shared by every turn: each element of the
\* result ends up as the row scanned last.
RECURSIVE ScanRowsShared(_, _)
ScanRowsShared(rows, list) ==
    IF rows = <<>>
    THEN list
    ELSE ScanRowsShared(Tail(rows),
                        [i \in 1 .. (Len(list) + 1) |->
                            user(Head(rows)[1], Head(rows)[2], Head(rows)[3])])

\* for rows.Next() { rows.Scan(&u.ID, &u.Name, &u.Age); users = append(users, u) }
RECURSIVE ScanRows(_, _)
ScanRows(rows, list) ==
    IF rows = <<>>
    THEN list
    ELSE ScanRows(Tail(rows),
                  Append(list, user(Head(rows)[1], Head(rows)[2], Head(rows)[3])))

\* A slice: nil, or the elements it holds.
NilSlice == [isNil |-> TRUE, items |-> <<>>]
Slice(items) == [isNil |-> FALSE, items |-> items]

getUsersSprintf(db, start, count, fault) ==
    LET statement == Statement(<<KwList, Fmt(count), KwOffset, Fmt(start)>>, <<>>)
        r == Query(db, statement, fault = 1)
    IN  IF r.err # NoErr
        THEN Returned(r.err, NilSlice, r.db, <<statement>>)
        ELSE Returned(NoErr, Slice(ScanRows(r.rows, <<>>)), r.db, <<statement>>)

----------------------------------------------------------------------------
(* model.go, the first version: nothing implemented *)

getUserStub(u, db, fault) == Returned(ErrNotImplemented, u, db, <<>>)

updateUserStub(u, db, fault) == Returned(ErrNotImplemented, u, db, <<>>)

deleteUserStub(u, db, fault) == Returned(ErrNotImplemented, u, db, <<>>)

createUserStub(u, db, fault) == Returned(ErrNotImplemented, u, db, <<>>)

getUsersStub(db, start, count, fault) == Returned(ErrNotImplemented, NilSlice, db, <<>>)

----------------------------------------------------------------------------
(* model.go, built with placeholders *)

getUserPlaceholder(u, db, fault) ==
    LET statement == Statement(<<KwSelectOne, "$1">>, <<IntArg(u.ID)>>)
        r == QueryRowScan(db, statement, fault = 1)
    IN  Returned(r.err,
                 IF r.err = NoErr
                 THEN [u EXCEPT !.Name = r.rows[1][1], !.Age = r.rows[1][2]] ELSE u,
                 r.db, <<statement>>)

updateUserPlaceholder(u, db, fault) ==
    LET statement == Statement(<<KwUpdate, "$1", KwAge, "$2", KwWhereId, "$3">>,
                               <<StrArg(u.Name), IntArg(u.Age), IntArg(u.ID)>>)
        r == Exec(db, statement, fault = 1)
    IN  Returned(r.err, u, r.db, <<statement>>)

deleteUserPlaceholder(u, db, fault) ==
    LET statement == Statement(<<KwDelete, "$1">>, <<IntArg(u.ID)>>)
        r == Exec(db, statement, fault = 1)
    IN  Returned(r.err, u, r.db, <<statement>>)

createUserPlaceholder(u, db, fault) ==
    LET statement == Statement(<<KwInsert, "$1", KwComma, "$2", KwClose, KwReturning>>,
                               <<StrArg(u.Name), IntArg(u.Age)>>)
        r == QueryRowScan(db, statement, fault = 1)
    IN  IF r.err # NoErr
        THEN Returned(r.err, u, r.db, <<statement>>)
        ELSE Returned(NoErr, [u EXCEPT !.ID = r.rows[1][1]], r.db, <<statement>>)

getUsersPlaceholder(db, start, count, fault) ==
    LET statement == Statement(<<KwList, "$1", KwOffset, "$2">>,
                               <<IntArg(count), IntArg(start)>>)
        r == Query(db, statement, fault = 1)
    IN  IF r.err # NoErr
        THEN Returned(r.err, NilSlice, r.db, <<statement>>)
        ELSE Returned(NoErr, Slice(ScanRows(r.rows, <<>>)), r.db, <<statement>>)

----------------------------------------------------------------------------
(* The model.go the handlers are linked with *)

getUser(u, db, fault) ==
    CASE variant = "sprintf" -> getUserSprintf(u, db, fault)
      [] variant = "stub" -> getUserStub(u, db, fault)
      [] variant = "placeholder" -> getUserPlaceholder(u, db, fault)

updateUser(u, db, fault) ==
    CASE variant = "sprintf" -> updateUserSprintf(u, db, fault)
      [] variant = "stub" -> updateUserStub(u, db, fault)
      [] variant = "placeholder" -> updateUserPlaceholder(u, db, fault)

deleteUser(u, db, fault) ==
    CASE variant = "sprintf" -> deleteUserSprintf(u, db, fault)
      [] variant = "stub" -> deleteUserStub(u, db, fault)
      [] variant = "placeholder" -> deleteUserPlaceholder(u, db, fault)

createUser(u, db, fault) ==
    CASE variant = "sprintf" -> createUserSprintf(u, db, fault)
      [] variant = "stub" -> createUserStub(u, db, fault)
      [] variant = "placeholder" -> createUserPlaceholder(u, db, fault)

getUsers(db, start, count, fault) ==
    CASE variant = "sprintf" -> getUsersSprintf(db, start, count, fault)
      [] variant = "stub" -> getUsersStub(db, start, count, fault)
      [] variant = "placeholder" -> getUsersPlaceholder(db, start, count, fault)

----------------------------------------------------------------------------
(* Requests and responses *)

StatusOK == 200
StatusCreated == 201
StatusBadRequest == 400
StatusNotFound == 404
StatusInternalServerError == 500

\* A path or query parameter as the router hands it over: digits that fit an
\* int, digits that do not, other text, or nothing at all.
IntParam(n) == [kind |-> "int", n |-> n]
HugeParam == [kind |-> "huge", n |-> 0]
TextParam == [kind |-> "text", n |-> 0]
MissingParam == [kind |-> "missing", n |-> 0]

\* A request body: a JSON object for a user, or bytes that do not decode.
JsonBody(id, name, age) == [kind |-> "json", ID |-> id, Name |-> name, Age |-> age]
MalformedBody == [kind |-> "malformed", ID |-> 0, Name |-> <<>>, Age |-> 0]
NoBody == [kind |-> "none", ID |-> 0, Name |-> <<>>, Age |-> 0]

Request(op, id, body, start, count) ==
    [op |-> op, id |-> id, body |-> body, start |-> start, count |-> count]

NoRequest == Request("", MissingParam, NoBody, MissingParam, MissingParam)

\* strconv.Atoi: [val, err]
Atoi(p) ==
    CASE p.kind = "int" -> [val |-> p.n, err |-> FALSE]
      [] p.kind = "huge" -> [val |-> MaxInt, err |-> TRUE]
      [] OTHER -> [val |-> 0, err |-> TRUE]

\* json.NewDecoder(r.Body).Decode(&u): [u, err]
Decode(body) ==
    IF body.kind = "json"
    THEN [u |-> user(body.ID, body.Name, body.Age), err |-> FALSE]
    ELSE [u |-> ZeroUser, err |-> TRUE]

\* json.Marshal of the three payloads the handlers write
EmptyJson == [kind |-> "", error |-> "", result |-> "", user |-> ZeroUser, users |-> <<>>]

MarshalError(message) == [EmptyJson EXCEPT !.kind = "error", !.error = message]
MarshalResult(result) == [EmptyJson EXCEPT !.kind = "result", !.result = result]
MarshalUser(u) == [EmptyJson EXCEPT !.kind = "user", !.user = u]
MarshalUsers(list) ==
    IF list.isNil
    THEN [EmptyJson EXCEPT !.kind = "null"]
    ELSE [EmptyJson EXCEPT !.kind = "array", !.users = list.items]

respondWithJSON(code, payload) == [code |-> code, body |-> payload]

respondWithError(code, message) == respondWithJSON(code, MarshalError(message))

NoResponse == respondWithJSON(0, EmptyJson)

\* One data-access call as the handler made it
Call(fn, u, start, count, err) ==
    [fn |-> fn, u |-> u, start |-> start, count |-> count, err |-> err]

----------------------------------------------------------------------------
(* app.go: the handlers.  Each action is one request served to its end.    *)

Served(request, response, made, stmts, db) ==
    /\ req' = request
    /\ resp' = response
    /\ calls' = made
    /\ sent' = stmts
    /\ users' = db.users
    /\ autoInc' = db.autoInc
    /\ lastInsertId' = db.lastInsertId
    /\ UNCHANGED <<variant, pool, flight>>

\* getUser without the case for sql.ErrNoRows
App_getUserNoSwitch(id, fault) ==
    LET request == Request("GET /user/{id}", id, NoBody, MissingParam, MissingParam)
    IN  \E a \in {Atoi(id)} :
        IF a.err
        THEN Served(request, respondWithError(StatusBadRequest, "Invalid user ID"),
                    <<>>, <<>>, DB)
        ELSE \E u \in {user(a.val, <<>>, 0)} :
             \E r \in {getUser(u, DB, fault)} :
                Served(request,
                       IF r.err # NoErr
                       THEN respondWithError(StatusInternalServerError, r.err)
                       ELSE respondWithJSON(StatusOK, MarshalUser(r.u)),
                       <<Call("getUser", u, 0, 0, r.err)>>, r.sent, r.db)

App_getUser(id, fault) ==
    LET request == Request("GET /user/{id}", id, NoBody, MissingParam, MissingParam)
    IN  \E a \in {Atoi(id)} :
        IF a.err
        THEN Served(request, respondWithError(StatusBadRequest, "Invalid user ID"),
                    <<>>, <<>>, DB)
        ELSE \E u \in {user(a.val, <<>>, 0)} :
             \E r \in {getUser(u, DB, fault)} :
                Served(request,
                       IF r.err # NoErr
                       THEN IF r.err = ErrNoRows
                            THEN respondWithError(StatusNotFound, "User not found")
                            ELSE respondWithError(StatusInternalServerError, r.err)
                       ELSE respondWithJSON(StatusOK, MarshalUser(r.u)),
                       <<Call("getUser", u, 0, 0, r.err)>>, r.sent, r.db)

\* getUsers that moves a count below 1 up to 1 instead of to 10
App_getUsersNearest(startParam, countParam, fault) ==
    LET request == Request("GET /users", MissingParam, NoBody, startParam, countParam)
    IN  \E c \in {Atoi(countParam).val}, s \in {Atoi(startParam).val} :
        \E count \in {IF c > 10 THEN 10 ELSE IF c < 1 THEN 1 ELSE c},
           start \in {IF s < 0 THEN 0 ELSE s} :
        \E r \in {getUsers(DB, start, count, fault)} :
            Served(request,
                   IF r.err # NoErr
                   THEN respondWithError(StatusInternalServerError, r.err)
                   ELSE respondWithJSON(StatusOK, MarshalUsers(r.u)),
                   <<Call("getUsers", ZeroUser, start, count, r.err)>>, r.sent, r.db)

\* getUsers that caps a count above 10 and lets a count below 1 through
App_getUsersUpperOnly(startParam, countParam, fault) ==
    LET request == Request("GET /users", MissingParam, NoBody, startParam, countParam)
    IN  \E c \in {Atoi(countParam).val}, s \in {Atoi(startParam).val} :
        \E count \in {IF c > 10 THEN 10 ELSE c},
           start \in {IF s < 0 THEN 0 ELSE s} :
        \E r \in {getUsers(DB, start, count, fault)} :
            Served(request,
                   IF r.err # NoErr
                   THEN respondWithError(StatusInternalServerError, r.err)
                   ELSE respondWithJSON(StatusOK, MarshalUsers(r.u)),
                   <<Call("getUsers", ZeroUser, start, count, r.err)>>, r.sent, r.db)

App_getUsers(startParam, countParam, fault) ==
    LET request == Request("GET /users", MissingParam, NoBody, startParam, countParam)
    IN  \E c \in {Atoi(countParam).val}, s \in {Atoi(startParam).val} :
        \E count \in {IF c > 10 \/ c < 1 THEN 10 ELSE c}, start \in {IF s < 0 THEN 0 ELSE s} :
        \E r \in {getUsers(DB, start, count, fault)} :
            Served(request,
                   IF r.err # NoErr
                   THEN respondWithError(StatusInternalServerError, r.err)
                   ELSE respondWithJSON(StatusOK, MarshalUsers(r.u)),
                   <<Call("getUsers", ZeroUser, start, count, r.err)>>, r.sent, r.db)

App_createUser(body, fault) ==
    LET request == Request("POST /user", MissingParam, body, MissingParam, MissingParam)
    IN  \E d \in {Decode(body)} :
        IF d.err
        THEN Served(request, respondWithError(StatusBadRequest, "Invalid request payload"),
                    <<>>, <<>>, DB)
        ELSE \E r \in {createUser(d.u, DB, fault)} :
                Served(request,
                       IF r.err # NoErr
                       THEN respondWithError(StatusInternalServerError, r.err)
                       ELSE respondWithJSON(StatusCreated, MarshalUser(r.u)),
                       <<Call("createUser", d.u, 0, 0, r.err)>>, r.sent, r.db)

\* updateUser without the return after the body failed to decode: the 400 is
\* written, and the update runs all the same with what was decoded.
App_updateUserNoReturn(id, body, fault) ==
    LET request == Request("PUT /user/{id}", id, body, MissingParam, MissingParam)
    IN  \E a \in {Atoi(id)}, d \in {Decode(body)} :
        IF a.err
        THEN Served(request, respondWithError(StatusBadRequest, "Invalid user ID"),
                    <<>>, <<>>, DB)
        ELSE \E u \in {[d.u EXCEPT !.ID = a.val]} :
             \E r \in {updateUser(u, DB, fault)} :
                Served(request,
                       IF d.err
                       THEN respondWithError(StatusBadRequest, "Invalid resquest payload")
                       ELSE IF r.err # NoErr
                       THEN respondWithError(StatusInternalServerError, r.err)
                       ELSE respondWithJSON(StatusOK, MarshalUser(r.u)),
                       <<Call("updateUser", u, 0, 0, r.err)>>, r.sent, r.db)

App_updateUser(id, body, fault) ==
    LET request == Request("PUT /user/{id}", id, body, MissingParam, MissingParam)
    IN  \E a \in {Atoi(id)}, d \in {Decode(body)} :
        IF a.err
        THEN Served(request, respondWithError(StatusBadRequest, "Invalid user ID"),
                    <<>>, <<>>, DB)
        ELSE IF d.err
        THEN Served(request, respondWithError(StatusBadRequest, "Invalid resquest payload"),
                    <<>>, <<>>, DB)
        ELSE \E u \in {[d.u EXCEPT !.ID = a.val]} :
             \E r \in {updateUser(u, DB, fault)} :
                Served(request,
                       IF r.err # NoErr
                       THEN respondWithError(StatusInternalServerError, r.err)
                       ELSE respondWithJSON(StatusOK, MarshalUser(r.u)),
                       <<Call("updateUser", u, 0, 0, r.err)>>, r.sent, r.db)

\* deleteUser that does not look at the error deleteUser returns
App_deleteUserUnchecked(id, fault) ==
    LET request == Request("DELETE /user/{id}", id, NoBody, MissingParam, MissingParam)
    IN  \E a \in {Atoi(id)} :
        IF a.err
        THEN Served(request, respondWithError(StatusBadRequest, "Invalid User ID"),
                    <<>>, <<>>, DB)
        ELSE \E u \in {user(a.val, <<>>, 0)} :
             \E r \in {deleteUser(u, DB, fault)} :
                Served(request, respondWithJSON(StatusOK, MarshalResult("success")),
                       <<Call("deleteUser", u, 0, 0, r.err)>>, r.sent, r.db)

App_deleteUser(id, fault) ==
    LET request == Request("DELETE /user/{id}", id, NoBody, MissingParam, MissingParam)
    IN  \E a \in {Atoi(id)} :
        IF a.err
        THEN Served(request, respondWithError(StatusBadRequest, "Invalid User ID"),
                    <<>>, <<>>, DB)
        ELSE \E u \in {user(a.val, <<>>, 0)} :
             \E r \in {deleteUser(u, DB, fault)} :
                Served(request,
                       IF r.err # NoErr
                       THEN respondWithError(StatusInternalServerError, r.err)
                       ELSE respondWithJSON(StatusOK, MarshalResult("success")),
                       <<Call("deleteUser", u, 0, 0, r.err)>>, r.sent, r.db)

----------------------------------------------------------------------------
(* The requests the model sends *)

\* The route pattern {id:[0-9]+} lets digits through and nothing else: a run of
\* digits that fits an int, or one that does not.
PathParams == {IntParam(n) : n \in PathIds} \cup {HugeParam}

\* Every JSON body carries an id of its own, which is never a row's id.
BodyId == 9

Bodies == {JsonBody(BodyId, p[1], p[2]) : p \in Payloads} \cup {MalformedBody}

CountParams == {IntParam(n) : n \in {0, 1, 10, 11}} \cup {MissingParam, TextParam, HugeParam}

StartParams == {IntParam(n) : n \in {-1, 1}} \cup {MissingParam, HugeParam}

\* <<start, count>> of the list requests
ListParams == ({MissingParam} \X CountParams) \cup (StartParams \X {MissingParam, IntParam(1)})

Faults == {1, 2}

Procs == 1 .. MaxProcs
Conns == 1 .. MaxConns

\* A goroutine with no create request in hand
Idle == [pc |-> "idle", req |-> NoRequest, u |-> ZeroUser, row |-> 0, resp |-> NoResponse]

\* clearTable() of main_test.go: no rows, AUTO_INCREMENT = 1
Cleared ==
    /\ users = <<>>
    /\ autoInc = 1
    /\ lastInsertId = 0
    /\ req = NoRequest
    /\ resp = NoResponse
    /\ calls = <<>>
    /\ sent = <<>>
    /\ pool = [c \in Conns |-> 0]
    /\ flight = [p \in Procs |-> Idle]

Init == variant \in Variants /\ Cleared

GetUser == \E id \in PathParams : App_getUser(id, 0)

GetUsers == \E p \in ListParams : App_getUsers(p[1], p[2], 0)

CreateUser == autoInc <= MaxId /\ \E body \in Bodies : App_createUser(body, 0)

UpdateUser == \E id \in PathParams, body \in Bodies : App_updateUser(id, body, 0)

DeleteUser == \E id \in PathParams : App_deleteUser(id, 0)

Next == GetUser \/ GetUsers \/ CreateUser \/ UpdateUser \/ DeleteUser

Spec == Init /\ [][Next]_vars

----------------------------------------------------------------------------
(* The same server when the driver can fail a call (a lost connection) and *)
(* when the binary may still hold the "Not implemented" model.go           *)

FaultInit == variant \in AllVariants /\ Cleared

\* The requests served while the driver fails: the failure comes before the
\* statement is read, so one id and one body stand for all.
FaultPathParams == {IntParam(1)}
FaultBodies == {JsonBody(BodyId, <<"a">>, 30), JsonBody(BodyId, <<Quote, Quote>>, 21)}

GetUserBroken == \E id \in FaultPathParams : App_getUser(id, 1)

GetUsersBroken == \E count \in {MissingParam, IntParam(1)} : App_getUsers(MissingParam, count, 1)

CreateUserBroken ==
    autoInc <= MaxId /\ \E body \in FaultBodies, fault \in Faults : App_createUser(body, fault)

UpdateUserBroken == \E id \in FaultPathParams, body \in FaultBodies : App_updateUser(id, body, 1)

DeleteUserBroken == \E id \in FaultPathParams : App_deleteUser(id, 1)

FaultNext ==
    \/ Next
    \/ GetUserBroken
    \/ GetUsersBroken
    \/ CreateUserBroken
    \/ UpdateUserBroken
    \/ DeleteUserBroken

FaultSpec == FaultInit /\ [][FaultNext]_vars

----------------------------------------------------------------------------
(* The server with requests in flight at the same time.  net/http runs each *)
(* handler in a goroutine of its own; all share a.DB, and database/sql runs *)
(* each statement on whichever connection of its pool is free.  A statement  *)
(* is one step; a handler that sends one statement is one step, createUser   *)
(* with its two statements is two, and other requests run in between.        *)

\* The pool starts with MaxConns idle connections, opened by earlier traffic
\* and none of them used for an INSERT yet; which idle connection a statement
\* gets is the pool's choice.

ConcIds == {IntParam(1)}

ConcPayloads == { <<(<<"a">>), 30>>, <<(<<"b">>), 21>>, <<(<<Quote, Hash>>), 30>> }

ConcBodies == {JsonBody(BodyId, p[1], p[2]) : p \in ConcPayloads}

\* createUser up to the return of its first statement, on a connection whose
\* LAST_INSERT_ID() is db.lastInsertId: [err, u, db, sent, finished]
createUserFirst(u, db) ==
    IF variant = "sprintf"
    THEN LET r == Exec(db, InsertStatement(u), FALSE)
         IN  [err |-> r.err, u |-> u, db |-> r.db, sent |-> <<InsertStatement(u)>>,
              finished |-> r.err # NoErr]
    ELSE LET r == createUser(u, db, 0)
         IN  [err |-> r.err, u |-> r.u, db |-> r.db, sent |-> r.sent, finished |-> TRUE]

\* The response createUser's handler writes
CreateResponse(err, u) ==
    IF err # NoErr
    THEN respondWithError(StatusInternalServerError, err)
    ELSE respondWithJSON(StatusCreated, MarshalUser(u))

\* Goroutine p takes a create request and runs createUser's first statement
\* on connection c.
BeginCreate(p, body, c) ==
    LET request == Request("POST /user", MissingParam, body, MissingParam, MissingParam)
    IN  /\ flight[p].pc # "inserted"
        /\ autoInc <= MaxId
        /\ \E u \in {Decode(body).u} :
           \E r \in {createUserFirst(u, Database(users, autoInc, pool[c]))} :
           \E row \in {IF r.err = NoErr THEN r.db.lastInsertId ELSE 0} :
              /\ users' = r.db.users
              /\ autoInc' = r.db.autoInc
              /\ pool' = [pool EXCEPT ![c] = r.db.lastInsertId]
              /\ req' = request
              /\ sent' = r.sent
              /\ IF r.finished
                 THEN /\ resp' = CreateResponse(r.err, r.u)
                      /\ calls' = <<Call("createUser", u, 0, 0, r.err)>>
                      /\ flight' = [flight EXCEPT ![p] =
                            [pc |-> "done", req |-> request, u |-> r.u, row |-> row,
                             resp |-> CreateResponse(r.err, r.u)]]
                 ELSE /\ resp' = NoResponse
                      /\ calls' = <<>>
                      /\ flight' = [flight EXCEPT ![p] =
                            [pc |-> "inserted", req |-> request, u |-> u, row |-> row,
                             resp |-> NoResponse]]
              /\ UNCHANGED <<variant, lastInsertId>>

\* Goroutine p runs SELECT LAST_INSERT_ID() on connection c, and its handler
\* writes the response.
FinishCreate(p, c) ==
    /\ flight[p].pc = "inserted"
    /\ \E q \in {QueryRowScan(Database(users, autoInc, pool[c]), LastIdStatement, FALSE)} :
       \E u \in {IF q.err = NoErr THEN [flight[p].u EXCEPT !.ID = q.rows[1][1]]
                                  ELSE flight[p].u} :
          /\ req' = flight[p].req
          /\ resp' = CreateResponse(q.err, u)
          /\ calls' = <<Call("createUser", flight[p].u, 0, 0, q.err)>>
          /\ sent' = <<InsertStatement(flight[p].u), LastIdStatement>>
          /\ flight' = [flight EXCEPT ![p] =
                [@ EXCEPT !.pc = "done", !.u = u, !.resp = CreateResponse(q.err, u)]]
    /\ UNCHANGED <<variant, users, autoInc, lastInsertId, pool>>

ConcCreate == \E p \in Procs, body \in ConcBodies, c \in Conns : BeginCreate(p, body, c)

ConcLastId == \E p \in Procs, c \in Conns : FinishCreate(p, c)

ConcGetUser == \E id \in ConcIds : App_getUser(id, 0)

ConcUpdateUser == \E id \in ConcIds, body \in ConcBodies : App_updateUser(id, body, 0)

ConcDeleteUser == \E id \in ConcIds : App_deleteUser(id, 0)

ConcNext == ConcCreate \/ ConcLastId \/ ConcGetUser \/ ConcUpdateUser \/ ConcDeleteUser

ConcSpec == Init /\ [][ConcNext]_vars

----------------------------------------------------------------------------
(* Vocabulary of the properties *)

Ids(rows) == {rows[i].ID : i \in DOMAIN rows}

RowOf(rows, id) == rows[CHOOSE i \in DOMAIN rows : rows[i].ID = id]

Without(rows, id) == SelectSeq(rows, LAMBDA r : r.ID # id)

IsGet(r) == r.op = "GET /user/{id}"
IsList(r) == r.op = "GET /users"
IsCreate(r) == r.op = "POST /user"
IsUpdate(r) == r.op = "PUT /user/{id}"
IsDelete(r) == r.op = "DELETE /user/{id}"

HasId(r) == IsGet(r) \/ IsUpdate(r) \/ IsDelete(r)
HasBody(r) == IsCreate(r) \/ IsUpdate(r)

\* The request is one the handler must refuse before it touches the database.
Malformed(r) ==
    \/ HasId(r) /\ r.id.kind # "int"
    \/ HasBody(r) /\ r.body.kind # "json"

\* The rows at positions start+1 .. start+count of the table
Window(rows, start, count) ==
    IF Len(rows) - start <= 0
    THEN <<>>
    ELSE SubSeq(rows, start + 1,
                IF Len(rows) - start < count THEN Len(rows) ELSE start + count)

\* What the list handler is to make of its count and start parameters
WantedCount(p) == IF p.kind = "int" /\ p.n >= 1 /\ p.n <= 10 THEN p.n ELSE 10
WantedStarts(p) ==
    CASE p.kind = "int" -> {IF p.n < 0 THEN 0 ELSE p.n}
      [] p.kind = "huge" -> {MaxInt}
      [] OTHER -> {0}

Success(code) == code >= 200 /\ code <= 299

----------------------------------------------------------------------------
(* C1: a GET /user/{id} for an id no row of the table has is answered 404   *)
(* with {"error":"User not found"}, never 200 and never 500, whatever       *)
(* requests came before.                                                     *)
C1_MissingUserIs404 ==
    IsGet(req) /\ req.id.kind = "int" /\ req.id.n \notin Ids(users)
        => resp = respondWithError(StatusNotFound, "User not found")

\* A fetch of an id that was created and deleted, while other rows remain
C1_Witness ==
    /\ IsGet(req) /\ req.id.kind = "int"
    /\ req.id.n \notin Ids(users) /\ req.id.n < autoInc
    /\ users # <<>>
    /\ resp.code = StatusNotFound

(* C2: POST /user with a well-formed body is answered 201 with the body's   *)
(* name and age and the id of the row this request inserted; an id in the   *)
(* body is ignored, and on a cleared table the first create returns id 1.    *)
C2_CreateReturnsRecord ==
    [][IsCreate(req') /\ req'.body.kind = "json"
        => /\ resp'.code = StatusCreated
           /\ resp'.body.kind = "user"
           /\ resp'.body.user.Name = req'.body.Name
           /\ resp'.body.user.Age = req'.body.Age
           /\ Ids(users') \ Ids(users) = {resp'.body.user.ID}
           /\ (users = <<>> /\ autoInc = 1 => resp'.body.user.ID = 1)]_vars

(* C3: PUT /user/{id} with a well-formed body is answered 200 with the path *)
(* id and the body's name and age, and when the row exists it holds the     *)
(* body's name and age afterwards.                                           *)
C3_UpdateStoresBody ==
    [][IsUpdate(req') /\ req'.id.kind = "int" /\ req'.body.kind = "json"
        => /\ resp' = respondWithJSON(StatusOK,
                        MarshalUser(user(req'.id.n, req'.body.Name, req'.body.Age)))
           /\ (req'.id.n \in Ids(users)
                => /\ req'.id.n \in Ids(users')
                   /\ RowOf(users', req'.id.n)
                        = user(req'.id.n, req'.body.Name, req'.body.Age))]_vars

(* C4: DELETE /user/{id} is answered 200 {"result":"success"} and leaves the *)
(* table without the row, the first time and every time after (a delete of  *)
(* an id that is gone changes nothing), and from then on the id stays gone:  *)
(* every GET for it is answered 404.                                         *)
C4_DeleteIsIdempotent ==
    [][/\ IsDelete(req') /\ req'.id.kind = "int"
            => /\ resp' = respondWithJSON(StatusOK, MarshalResult("success"))
               /\ users' = Without(users, req'.id.n)
       /\ \A id \in PathIds :
            id < autoInc /\ id \notin Ids(users)
                => /\ id \notin Ids(users')
                   /\ (IsGet(req') /\ req'.id = IntParam(id)
                        => resp'.code = StatusNotFound)]_vars

(* C5: GET /users is answered 200 with exactly the rows at positions        *)
(* start+1 .. start+count of the table (start and count as clamped), in the  *)
(* table's order, none dropped or repeated; with no such row the body is the *)
(* empty array [], never null.                                              *)
C5_ListIsWindow ==
    IsList(req)
        => /\ resp.code = StatusOK
           /\ resp.body.kind = "array"
           /\ Len(calls) = 1
           /\ resp.body.users = Window(users, calls[1].start, calls[1].count)

\* The second row of two, asked for alone
C5_Witness ==
    /\ IsList(req)
    /\ Len(users) = 2 /\ users[1].Name # users[2].Name
    /\ resp.body.users = <<users[2]>>

(* C6: the list handler hands the data-access call count 10 for every count  *)
(* outside 1..10 (a missing or non-numeric count included) and start 0 for   *)
(* every negative start, passes values in range through unchanged, never     *)
(* answers with an error, and with no parameters returns the first 10 users. *)
C6_ListClamps ==
    IsList(req)
        => /\ Len(calls) = 1
           /\ calls[1].fn = "getUsers"
           /\ calls[1].count = WantedCount(req.count)
           /\ calls[1].start \in WantedStarts(req.start)
           /\ calls[1].count >= 1 /\ calls[1].count <= 10
           /\ calls[1].start >= 0
           /\ resp.code = StatusOK
           /\ (req.count = MissingParam /\ req.start = MissingParam
                => resp.body.users = Window(users, 0, 10))

\* A count of 0 became 10, and the rows are there to show it
C6_Witness ==
    /\ IsList(req)
    /\ req.count = IntParam(0)
    /\ calls[1].count = 10
    /\ Len(resp.body.users) = 2

(* C7: the record a successful create returns and the record a GET of the   *)
(* returned id returns are the same in id, name and age (the GET following   *)
(* the create, with no update or delete of the id between).                 *)
C7_CreateThenGet ==
    [][(/\ IsCreate(req) /\ resp.code = StatusCreated
        /\ IsGet(req') /\ req'.id = IntParam(resp.body.user.ID))
        => /\ resp'.code = StatusOK
           /\ resp'.body.user = resp.body.user]_vars

(* C8: the text of the statement an operation sends is the same whatever     *)
(* the values of id, name, age, start and count: the values travel as bound  *)
(* parameters.  Two requests for the same operation that send as many        *)
(* statements send the same text.                                           *)
C8_StatementTextIsFixed ==
    [][req.op = req'.op /\ Len(sent) = Len(sent')
        => \A i \in DOMAIN sent : sent[i].text = sent'[i].text]_vars

(* C9: a request with a malformed id or a malformed JSON body is answered   *)
(* 400 with a body {"error": <message>}, its handler makes no data-access    *)
(* call, and the users table is as it was.                                  *)
C9_MalformedIsRefused ==
    [][Malformed(req')
        => /\ resp'.code = StatusBadRequest
           /\ resp'.body.kind = "error"
           /\ resp'.body.error # ""
           /\ calls' = <<>>
           /\ sent' = <<>>
           /\ users' = users
           /\ autoInc' = autoInc]_vars

\* An update with a body that does not decode, for a row that exists
C9_Witness ==
    /\ IsUpdate(req) /\ req.id.kind = "int" /\ req.body.kind = "malformed"
    /\ req.id.n \in Ids(users)
    /\ resp.code = StatusBadRequest

(* C10: when the data-access call returns an error, the handler made that   *)
(* one call and sent no statement twice, the answer is not a 2xx, and unless *)
(* the error is fetch-one's no-rows the answer is 500 with the error's text  *)
(* as {"error": <text>}.                                                    *)
C10_ErrorIs500 ==
    \A i \in DOMAIN calls :
        calls[i].err # NoErr
            => /\ Len(calls) = 1
               /\ \A j, k \in DOMAIN sent : sent[j] = sent[k] => j = k
               /\ ~Success(resp.code)
               /\ (~(calls[i].fn = "getUser" /\ calls[i].err = ErrNoRows)
                    => resp = respondWithError(StatusInternalServerError, calls[i].err))

\* A create whose insert went through and whose LAST_INSERT_ID() query failed
C10_Witness ==
    /\ calls # <<>>
    /\ calls[1].fn = "createUser" /\ calls[1].err = ErrBadConn
    /\ Len(sent) = 2
    /\ resp.code = StatusInternalServerError

\* The number a count or start parameter parses to (strconv.Atoi's value)
ParsedAs(p) == Atoi(p).val

(* C11: a handler that reaches the data-access layer makes one call, and    *)
(* that call sends one statement; a create request that ends in an error    *)
(* response has added no row to the users table.                            *)
C11_OneStatementNoPartialWrite ==
    [][/\ calls' # <<>> => Len(calls') = 1 /\ Len(sent') = 1
       /\ IsCreate(req') /\ ~Success(resp'.code) => users' = users]_vars

(* C12 as stated: the list handler moves a count below 1 to 1, a count      *)
(* above 10 to 10 and a negative start to 0.                                *)
C12_ClampsToNearest ==
    IsList(req)
        => /\ Len(calls) = 1
           /\ (ParsedAs(req.count) < 1 => calls[1].count = 1)
           /\ (ParsedAs(req.count) > 10 => calls[1].count = 10)
           /\ (ParsedAs(req.start) < 0 => calls[1].start = 0)

(* C12 as the code has it: a count below 1 and a count above 10 both become *)
(* 10, the default page size, and a negative start becomes 0.               *)
C12_ClampsToDefault ==
    IsList(req)
        => /\ Len(calls) = 1
           /\ (ParsedAs(req.count) < 1 => calls[1].count = 10)
           /\ (ParsedAs(req.count) > 10 => calls[1].count = 10)
           /\ (ParsedAs(req.start) < 0 => calls[1].start = 0)

\* A list request with a negative start and no count
C12_Witness ==
    /\ IsList(req)
    /\ req.start = IntParam(-1) /\ req.count = MissingParam
    /\ calls[1].start = 0 /\ calls[1].count = 10
    /\ resp.body.users # <<>>

\* The rows whose id is not id, as they stand in the table
Others(rows, id) == SelectSeq(rows, LAMBDA r : r.ID # id)

(* C13: an update or a delete for id X leaves every row with another id as  *)
(* it was; when no row has id X the table is unchanged; and the answer is   *)
(* 200 either way.                                                          *)
C13_OnlyThatRow ==
    [][(/\ IsUpdate(req') \/ IsDelete(req')
        /\ ~Malformed(req'))
        => /\ Others(users', req'.id.n) = Others(users, req'.id.n)
           /\ (req'.id.n \notin Ids(users) => users' = users)
           /\ resp'.code = StatusOK]_vars

(* C14: no two rows of the table have the same id, every id is a positive   *)
(* number the database's counter has given out, and no request changes the  *)
(* id of a row: the ids in the table after a request are those before it    *)
(* less the one deleted, plus the one created.                              *)
C14_IdsAreStable ==
    [][/\ \A i, j \in DOMAIN users' : users'[i].ID = users'[j].ID => i = j
       /\ \A i \in DOMAIN users' : users'[i].ID >= 1 /\ users'[i].ID < autoInc'
       /\ Ids(users') \subseteq Ids(users) \cup {autoInc}
       /\ \A i \in DOMAIN users' :
            users'[i].ID \in Ids(users) =>
                \E j \in DOMAIN users :
                    /\ users[j].ID = users'[i].ID
                    /\ (~IsUpdate(req') => users[j] = users'[i])]_vars

(* C15: a create request answered 201 carries the id of the row that same   *)
(* request inserted, never 0 and never another request's row, and two       *)
(* goroutines' creates never carry the same id.                              *)
C15_CreateReturnsOwnId ==
    /\ \A p \in Procs :
        flight[p].resp.code = StatusCreated
            => /\ flight[p].resp.body.user.ID # 0
               /\ flight[p].resp.body.user.ID = flight[p].row
    /\ \A p, q \in Procs :
        /\ p # q
        /\ flight[p].resp.code = StatusCreated
        /\ flight[q].resp.code = StatusCreated
        => flight[p].resp.body.user.ID # flight[q].resp.body.user.ID

(* C16: with updates, deletes and fetches of one id running at the same     *)
(* time, every row of the table holds the whole (name, age) payload of one   *)
(* request, never parts of two, and a fetch is answered 404 when the row is  *)
(* absent and with the row's whole value when it is there.                   *)
C16_WholePayloads ==
    [][/\ \A i \in DOMAIN users' :
            \E w \in ConcPayloads : users'[i].Name = w[1] /\ users'[i].Age = w[2]
       /\ IsGet(req') /\ ~Malformed(req')
            => resp' = IF req'.id.n \in Ids(users)
                       THEN respondWithJSON(StatusOK, MarshalUser(RowOf(users, req'.id.n)))
                       ELSE respondWithError(StatusNotFound, "User not found")]_vars

====
